---- MODULE Spec2Model ----
(***************************************************************************)
(* Model of the financial research workflow (FinancialFlow, a crewai Flow) *)
(* of src/financial_agent_crewai/main.py and of the retrying generation    *)
(* call DocumentAnalyzer.get_analysis of                                   *)
(* src/document_comparison/src/document_analyzer.py.                       *)
(*                                                                         *)
(* Spec      : one run of FinancialFlow.kickoff(): the seven stage methods,*)
(*             started by the flow engine according to the @start/@listen  *)
(*             decorators, interleaved at their external task invocations. *)
(* SpecRetry : one call of get_analysis, one loop iteration per step.      *)
(* SpecGuard : construction of a Guard and one call of Guard.evaluate of   *)
(*             src/utils/guardrails/guard.py.                              *)
(* SpecJudge : one predict call of a weave model and one call of           *)
(*             CorrectnessLLMJudge.score of src/utils/eval/models.py.      *)
(***************************************************************************)
EXTENDS Integers, Sequences, FiniteSets, TLC

\* ------------------------------------------------------------------ bounds
MaxEntities == 2      \* entities the extraction stage may return
MaxRetriesBound == 4  \* largest configured max_retries explored
MaxFaults == 1        \* failures the environment injects in one workflow run
MaxRuns == 2          \* workflow runs (kickoffs) in a row

\* --------------------------------------------------------------- constants
Sources == {"generic", "sec", "news", "stocks"}
Branches == {"sec_edgar", "yfinance_news", "yfinance_stocks"}
Starts == {"generic_research", "query_decomposition"}
Stages == Starts \cup {"information_extraction", "report_writing"} \cup Branches
Entities == 1 .. MaxEntities

VARIABLES
    \* ---- FinancialFlow
    source,         \* self.source_generic_search, ..._sec_filings, ..._yfinance_news, ..._yfinance_stocks
    st,             \* per stage method: "idle", "running", "done" (returned), "failed" (raised)
    cause,          \* per stage: why it raised: "none", "task" (a crew kickoff raised),
                    \* "tables" / "corpus" / "open" (an unguarded open of the stocks table files,
                    \* of a corpus file, of a report file raised), "attr" (self.is_comparison
                    \* read before assignment), "render" (the final report steps raised)
    ret,            \* per stage: the value the method returned
    arg,            \* per listener stage: the value the engine passed to it
    is_comparison,  \* self.is_comparison: "unset", "true", "false"
    i,              \* per branch: number of entities of the for loop already processed
    reports,        \* per branch: the local list sec_reports_list / yfinace_news_reports_list / yfinace_stocks_reports_list
    corpus,         \* per corpus file name: the comparison corpus file (exists, content)
    context,        \* per branch: the local context, the corpus text read for the comparison crew
    files,          \* artifact files that exist and are readable
    report_list,    \* self.report_list
    calls,          \* per stage: crew kickoff invocations made so far
    fails,          \* per stage: crew kickoff invocations that raised
    rw_i,           \* report_writing: entries of report_list already processed
    summary_dict,   \* report_writing: keys of summary_dict in insertion order
    final_report,   \* whether report.md / report.pdf were produced
    faults,         \* failures injected so far
    \* ---- construction and repeated runs
    run,            \* ordinal of the current workflow run (kickoff)
    cache_path,     \* self.cache_path as the latest constructor call set it:
                    \* "CACHE_DIR", "custom", or "other" for a rejected argument
    ctor,           \* outcome of the latest constructor call: "ok", "TypeError"
    how,            \* how the current run was begun: "first" (the first object and
                    \* its first kickoff), "init" (a new object), "kickoff" (the
                    \* same object kicked off again)
    \* ---- DocumentAnalyzer.get_analysis
    max_retries,    \* self.max_retries
    ga_pc,          \* "loop", "check", "returned", "raised"
    retries,        \* local retries
    error_message,  \* local error_message
    completion,     \* local completion ("unbound" before the first assignment)
    usage,          \* local usage ("unbound" before the first assignment)
    invocations,    \* number of self.llm.invoke calls made
    last_outcome,   \* outcome of the most recent invoke call
    last_error,     \* error text of the most recent failed call
    last_output,    \* content of the most recent successful invoke
    sleeps,         \* the lengths of the time.sleep calls made, in call order
    \* ---- Guard (utils/guardrails/guard.py)
    guardrails_yaml,   \* the guardrails YAML file: per category id its 'enabled' entry
    guard_pc,          \* "new" (no Guard yet), "ready" (constructed), "invoke" (evaluate
                       \* stands before self.llm.invoke), "returned", "raised"
    guardrails,        \* self.guardrails
    parsed_guardrails, \* self.parsed_guardrails: the ids listed in the formatted string
    evaluate_args,     \* the arguments of the evaluate call
    conversation,      \* local conversation ("unbound" before the first assignment)
    guard_invocations, \* number of self.llm.invoke calls made by evaluate
    guard_result,      \* result.content of the guardrail model
    guard_out,         \* what evaluate returned or raised
    \* ---- CorrectnessLLMJudge.score, WeaveChatModel.predict, WeaveRAGModel.predict
    include_usage,     \* self.include_usage of the judge
    normalize_score,   \* self.normalize_score of the judge
    model_output,      \* the dictionary a predict method returned
    predict_pc,        \* "idle", "returned", "raised"
    score_pc,          \* "idle", "returned", "raised"
    judge_invocations, \* number of judge.invoke calls made by score
    judge_outcome,     \* what judge.invoke did in the latest score call
    score_out          \* what score returned or raised

flowVars == <<source, st, cause, ret, arg, is_comparison, i, reports, corpus, context, files,
              report_list, calls, fails, rw_i, summary_dict, final_report, faults>>
gaVars == <<max_retries, ga_pc, retries, error_message, completion, usage,
            invocations, last_outcome, last_error, last_output, sleeps>>
instVars == <<run, cache_path, ctor, how>>
guardVars == <<guardrails_yaml, guard_pc, guardrails, parsed_guardrails, evaluate_args,
               conversation, guard_invocations, guard_result, guard_out>>
judgeVars == <<include_usage, normalize_score, model_output, predict_pc, score_pc,
               judge_invocations, judge_outcome, score_out>>
utilVars == <<guardVars, judgeVars>>
vars == <<flowVars, instVars, gaVars, utilVars>>

\* ------------------------------------------------------------ value helpers
None == [kind |-> "None", val |-> <<>>]
List(s) == [kind |-> "list", val |-> s]
QueriesList == [kind |-> "queries_list", val |-> <<>>]
Str(h) == [kind |-> "str", val |-> <<h>>]
\* SubQueriesList(queries_list=[self.query], is_comparison=False)
SubQueriesList ==
    [kind |-> "SubQueriesList", val |-> <<>>, queries_list |-> <<"query">>,
     is_comparison |-> FALSE]

\* handle of the artifact of entity e in stage/branch b; entity 0 is the
\* stage-wide artifact (generic report, comparison report)
Handle(b, e) == <<b, e>>

\* faulty variant: decomposition and extraction run whatever the flags are
FlagAlways(s) ==
    CASE s = "generic_research" -> source["generic"]
      [] s = "sec_edgar" -> source["sec"]
      [] s = "yfinance_news" -> source["news"]
      [] s = "yfinance_stocks" -> source["stocks"]
      [] OTHER -> TRUE

\* flag deciding whether a stage does work
Flag(s) ==
    CASE s = "generic_research" -> source["generic"]
      [] s = "sec_edgar" -> source["sec"]
      [] s = "yfinance_news" -> source["news"]
      [] s = "yfinance_stocks" -> source["stocks"]
      [] OTHER -> source["sec"] \/ source["news"] \/ source["stocks"]

\* entity lists the extraction crew may return: n distinct entities,
\* n = 0 .. MaxEntities, in ascending and in descending order of their names
\* (entities are interchangeable, the two orders tell a reordering apart)
EntityLists == {[k \in 1 .. n |-> k] : n \in 0 .. MaxEntities}
                  \cup {[k \in 1 .. n |-> n + 1 - k] : n \in 0 .. MaxEntities}

\* the environment injects at most MaxFaults failures (a crew kickoff that
\* raises, a file that cannot be opened, a render step that raises) in one run
Inject(n) ==
    /\ faults + n <= MaxFaults
    /\ faults' = faults + n


\* ------------------------------------------------------------- flow engine
\* faulty variant: the three branches are @start() methods
PredsBranchesFree(s) ==
    CASE s = "information_extraction" -> {"query_decomposition"}
      [] s = "report_writing" -> {"generic_research"} \cup Branches
      [] OTHER -> {}

\* faulty variant: report_writing listens to generic_research alone
PredsGenericOnly(s) ==
    CASE s = "information_extraction" -> {"query_decomposition"}
      [] s \in Branches -> {"information_extraction"}
      [] s = "report_writing" -> {"generic_research"}
      [] OTHER -> {}

\* faulty variant: the branches are chained, each listens to the one
\* declared before it
PredsChain(s) ==
    CASE s = "information_extraction" -> {"query_decomposition"}
      [] s = "sec_edgar" -> {"information_extraction"}
      [] s = "yfinance_news" -> {"sec_edgar"}
      [] s = "yfinance_stocks" -> {"yfinance_news"}
      [] s = "report_writing" -> {"generic_research"} \cup Branches
      [] OTHER -> {}

\* faulty variant: information_extraction is a @start() method
PredsExtractionFree(s) ==
    CASE s \in Branches -> {"information_extraction"}
      [] s = "report_writing" -> {"generic_research"} \cup Branches
      [] OTHER -> {}

\* the methods a stage listens to: @start() has none, @listen(m) has one,
\* @listen(and_(...)) has four
Preds(s) ==
    CASE s = "information_extraction" -> {"query_decomposition"}
      [] s \in Branches -> {"information_extraction"}
      [] s = "report_writing" -> {"generic_research"} \cup Branches
      [] OTHER -> {}

\* faulty variant: every listener is handed the decomposition's return value
TriggerDecomposition(s) == "query_decomposition"

\* the method whose return value the engine passes to listener s
Trigger(s) == IF s = "information_extraction" THEN "query_decomposition"
              ELSE "information_extraction"

\* faulty variant: or_ instead of and_, one returned method suffices
TriggeredAny(s) == Preds(s) = {} \/ \E p \in Preds(s) : st[p] = "done"

\* faulty variant: a method that raised counts as completed
TriggeredSettled(s) == \A p \in Preds(s) : st[p] \in {"done", "failed"}

\* a listener becomes startable when every method it listens to has returned
Triggered(s) == \A p \in Preds(s) : st[p] = "done"

\* faulty variant: the exception is swallowed and the stage goes on
RaiseSwallowed(s, c) == UNCHANGED <<st, cause>>

\* a Python exception leaves the method: the stage ends as failed
Raise(s, c) ==
    /\ st' = [st EXCEPT ![s] = "failed"]
    /\ cause' = [cause EXCEPT ![s] = c]

\* the method returns v
Return(s, v) ==
    /\ st' = [st EXCEPT ![s] = "done"]
    /\ ret' = [ret EXCEPT ![s] = v]

\* bookkeeping of n kickoff invocations of stage s, f of which raised
Count(s, n, f) ==
    /\ calls' = [calls EXCEPT ![s] = @ + n]
    /\ fails' = [fails EXCEPT ![s] = @ + f]

\* faulty variant: the engine invokes a method again after it has returned
BeginAgain(s) ==
    /\ ctor = "ok"
    /\ st[s] \in {"idle", "done"}
    /\ Triggered(s)
    /\ st' = [st EXCEPT ![s] = "running"]
    /\ arg' = IF s \in Branches \cup {"information_extraction"}
              THEN [arg EXCEPT ![s] = ret[Trigger(s)]]
              ELSE arg

\* the engine invokes stage method s
Begin(s) ==
    /\ ctor = "ok"
    /\ st[s] = "idle"
    /\ Triggered(s)
    /\ st' = [st EXCEPT ![s] = "running"]
    /\ arg' = IF s \in Branches \cup {"information_extraction"}
              THEN [arg EXCEPT ![s] = ret[Trigger(s)]]
              ELSE arg

\* ------------------------------------------------------ generic_research
generic_research_start ==
    /\ Begin("generic_research")
    /\ UNCHANGED <<source, context, cause, ret, is_comparison, i, reports, corpus, files,
                   report_list, calls, fails, rw_i, summary_dict, final_report, faults>>
    /\ UNCHANGED <<instVars, gaVars, utilVars>>

generic_research ==
    /\ st["generic_research"] = "running"
    /\ IF Flag("generic_research")
       THEN \E o \in {"ok", "raise"} :
              IF o = "raise"
              THEN /\ Raise("generic_research", "task")
                   /\ Inject(1)
                   /\ Count("generic_research", 1, 1)
                   /\ UNCHANGED <<ret, files, report_list>>
              ELSE /\ Return("generic_research", Str(Handle("generic_research", 0)))
                   /\ Count("generic_research", 1, 0)
                   /\ files' = files \cup {Handle("generic_research", 0)}
                   /\ report_list' = Append(report_list, Handle("generic_research", 0))
                   /\ UNCHANGED <<cause, faults>>
       ELSE /\ Return("generic_research", None)
            /\ UNCHANGED <<cause, files, report_list, calls, fails, faults>>
    /\ UNCHANGED <<source, context, arg, is_comparison, i, reports, corpus, rw_i, summary_dict,
                   final_report>>
    /\ UNCHANGED <<instVars, gaVars, utilVars>>

\* ---------------------------------------------------- query_decomposition
query_decomposition_start ==
    /\ Begin("query_decomposition")
    /\ UNCHANGED <<source, context, cause, ret, is_comparison, i, reports, corpus, files,
                   report_list, calls, fails, rw_i, summary_dict, final_report, faults>>
    /\ UNCHANGED <<instVars, gaVars, utilVars>>

query_decomposition ==
    /\ st["query_decomposition"] = "running"
    /\ IF Flag("query_decomposition")
       THEN \E o \in {"true", "false", "raise"} :
              IF o = "raise"
              THEN /\ Raise("query_decomposition", "task")
                   /\ Inject(1)
                   /\ Count("query_decomposition", 1, 1)
                   /\ UNCHANGED <<ret, is_comparison>>
              ELSE /\ is_comparison' = o
                   /\ Return("query_decomposition", QueriesList)
                   /\ Count("query_decomposition", 1, 0)
                   /\ UNCHANGED <<cause, faults>>
       ELSE /\ Return("query_decomposition", SubQueriesList)
            /\ UNCHANGED <<cause, is_comparison, calls, fails, faults>>
    /\ UNCHANGED <<source, context, arg, i, reports, corpus, files, report_list, rw_i,
                   summary_dict, final_report>>
    /\ UNCHANGED <<instVars, gaVars, utilVars>>

\* ------------------------------------------------- information_extraction
information_extraction_start ==
    /\ Begin("information_extraction")
    /\ UNCHANGED <<source, context, cause, ret, is_comparison, i, reports, corpus, files,
                   report_list, calls, fails, rw_i, summary_dict, final_report, faults>>
    /\ UNCHANGED <<instVars, gaVars, utilVars>>

information_extraction ==
    /\ st["information_extraction"] = "running"
    /\ IF Flag("information_extraction")
       THEN \/ /\ Raise("information_extraction", "task")
               /\ Inject(1)
               /\ Count("information_extraction", 1, 1)
               /\ UNCHANGED ret
            \/ \E l \in EntityLists :
               /\ Return("information_extraction", List(l))
               /\ Count("information_extraction", 1, 0)
               /\ UNCHANGED <<cause, faults>>
       ELSE /\ Return("information_extraction", None)
            /\ UNCHANGED <<cause, calls, fails, faults>>
    /\ UNCHANGED <<source, context, arg, is_comparison, i, reports, corpus, files, report_list,
                   rw_i, summary_dict, final_report>>
    /\ UNCHANGED <<instVars, gaVars, utilVars>>


\* ---------------------------------------------------------------- branches
\* crew kickoffs one loop iteration makes: SEC crew + RAG crew, news crew +
\* RAG crew, stocks crew
NumCalls(b) == IF b = "yfinance_stocks" THEN 1 ELSE 2

\* whether the handle is appended to the local list before the k-th kickoff
\* of the iteration: sec_edgar appends between its two kickoffs
AppendedBefore(b, k) == (b = "sec_edgar" /\ k = 2)

\* faulty variant: the news and the stocks branch use one file name
GlobalFilenameShared(b) ==
    CASE b = "sec_edgar" -> "comparison_sec_filings.txt"
      [] OTHER -> "comparison_yfinance.txt"

\* global_sec_filename, global_yfinance_news_filename,
\* global_yfinance_stocks_filename: the corpus file of a branch in
\* self.cache_path
GlobalFilename(b) ==
    CASE b = "sec_edgar" -> "comparison_sec_filings.txt"
      [] b = "yfinance_news" -> "comparison_yfinance_news.txt"
      [] OTHER -> "comparison_yfinance_stocks.txt"

\* the corpus files of the three branches
CorpusFiles == {GlobalFilename(b) : b \in Branches}

\* one section of a comparison corpus: start delimiter, title line, content
\* of the artifact, end delimiter; only the SEC title names the year
Section(b, e) ==
    [start |-> "<start>---", company |-> e, year |-> (b = "sec_edgar"),
     content |-> Handle(b, e), end |-> "<end>---"]

\* open(target, 'a') followed by the writes of one section
AppendSection(c, sec) == [exists |-> TRUE, content |-> Append(c.content, sec)]

\* what one loop iteration can meet:
\*   raise1, raise2 : the first / second crew kickoff raises
\*   tables_fail    : (stocks) the JSON file or the text file cannot be opened
\*                    by the unguarded code that appends the data tables
\*   try_fail       : an exception inside the try block: the artifact file is
\*                    not found (sec, news); for stocks, whose artifact file
\*                    was just opened for append, the corpus cannot be written
\*   ok             : the artifact is read and its section appended
EntityOutcomes(b) ==
    {"ok", "try_fail", "raise1"}
        \cup (IF b = "yfinance_stocks" THEN {"tables_fail"} ELSE {"raise2"})

\* whether the artifact file of an entity is readable after an iteration that
\* ended with outcome o
Readable(b, o) == o = "ok" \/ b = "yfinance_stocks"

\* the try/except around the read of the artifact and the append to the
\* corpus: both handlers only log, the loop goes on
GuardedIO(b, e, o) ==
    /\ corpus' = IF o = "ok"
                 THEN [corpus EXCEPT ![GlobalFilename(b)] = AppendSection(@, Section(b, e))]
                 ELSE corpus
    /\ files' = IF Readable(b, o) THEN files \cup {Handle(b, e)} ELSE files
    /\ i' = [i EXCEPT ![b] = @ + 1]
    /\ Inject(IF o = "ok" THEN 0 ELSE 1)
    /\ UNCHANGED <<st, cause>>

\* faulty variant: `..._reports_list.insert(0, name)`
InsertReport(l, h) == <<h>> \o l

\* `..._reports_list.append(name)`
AppendReport(l, h) == Append(l, h)

\* the body of `for filing_metadata in metadata_inputs_list` for one entity
BranchEntity(b) ==
    /\ st[b] = "running"
    /\ Flag(b)
    /\ arg[b].kind = "list"
    /\ i[b] < Len(arg[b].val)
    /\ LET e == arg[b].val[i[b] + 1] IN
       \E o \in EntityOutcomes(b) :
         CASE o \in {"raise1", "raise2"} ->
                LET k == IF o = "raise1" THEN 1 ELSE 2 IN
                /\ Raise(b, "task")
                /\ Inject(1)
                /\ Count(b, k, 1)
                /\ reports' = IF AppendedBefore(b, k)
                              THEN [reports EXCEPT ![b] = AppendReport(@, Handle(b, e))]
                              ELSE reports
                /\ UNCHANGED <<i, corpus, files>>
           [] o = "tables_fail" ->
                /\ Raise(b, "tables")
                /\ Inject(1)
                /\ Count(b, NumCalls(b), 0)
                /\ reports' = [reports EXCEPT ![b] = AppendReport(@, Handle(b, e))]
                /\ UNCHANGED <<i, corpus, files>>
           [] OTHER ->
                /\ Count(b, NumCalls(b), 0)
                /\ reports' = [reports EXCEPT ![b] = AppendReport(@, Handle(b, e))]
                /\ GuardedIO(b, e, o)
    /\ UNCHANGED <<source, context, ret, arg, is_comparison, report_list, rw_i, summary_dict,
                   final_report>>
    /\ UNCHANGED <<instVars, gaVars, utilVars>>

\* the file the comparison crew writes: the stocks branch passes the corpus
\* file itself as output_file, the two others a separate report file
ComparisonOutput(b, c) ==
    IF b = "yfinance_stocks"
    THEN [exists |-> TRUE,
          content |-> <<[start |-> "", company |-> 0, year |-> FALSE,
                         content |-> Handle(b, 0), end |-> ""]>>]
    ELSE c

\* faulty variant: the block is inserted at the front of the global list
ExtendFrontAndReturn(b, l) ==
    /\ report_list' = l \o report_list
    /\ reports' = [reports EXCEPT ![b] = l]
    /\ Return(b, List(l))

\* faulty variant: `self.report_list = l`, the global list is overwritten
ExtendReplaceAndReturn(b, l) ==
    /\ report_list' = l
    /\ reports' = [reports EXCEPT ![b] = l]
    /\ Return(b, List(l))

\* `self.report_list.extend(l); return l`
ExtendAndReturn(b, l) ==
    /\ report_list' = report_list \o l
    /\ reports' = [reports EXCEPT ![b] = l]
    /\ Return(b, List(l))

\* faulty variant: `if len(...) > 1 or self.is_comparison`
ComparisonCondOr(n, c) == n > 1 \/ c = "true"

\* faulty variant: `if len(...) > 2 and self.is_comparison`
ComparisonCondTwo(n, c) == n > 2 /\ c = "true"

\* `if len(..._reports_list) > 1 and self.is_comparison`
ComparisonCond(n, c) == n > 1 /\ c = "true"

\* the code after the loop: document comparison, extend, return
BranchAggregate(b) ==
    /\ st[b] = "running"
    /\ Flag(b)
    /\ arg[b].kind = "list"
    /\ i[b] = Len(arg[b].val)
    /\ IF Len(reports[b]) > 1 /\ is_comparison = "unset"
       THEN \* AttributeError on self.is_comparison
            /\ Raise(b, "attr")
            /\ UNCHANGED <<ret, reports, corpus, context, files, report_list, calls, fails, faults>>
       ELSE IF ComparisonCond(Len(reports[b]), is_comparison)
       THEN IF ~corpus[GlobalFilename(b)].exists
            THEN \* open(global_..._filename, 'r') raises FileNotFoundError
                 /\ Raise(b, "corpus")
                 /\ UNCHANGED <<ret, reports, corpus, context, files, report_list, calls, fails, faults>>
            ELSE \/ /\ context' = [context EXCEPT ![b] = corpus[GlobalFilename(b)].content]
                    /\ Raise(b, "task")
                    /\ Inject(1)
                    /\ Count(b, 1, 1)
                    /\ UNCHANGED <<ret, reports, corpus, files, report_list>>
                 \/ /\ context' = [context EXCEPT ![b] = corpus[GlobalFilename(b)].content]
                    /\ Count(b, 1, 0)
                    /\ corpus' = [corpus EXCEPT ![GlobalFilename(b)] = ComparisonOutput(b, @)]
                    /\ files' = files \cup {Handle(b, 0)}
                    /\ ExtendAndReturn(b, Append(reports[b], Handle(b, 0)))
                    /\ UNCHANGED <<cause, faults>>
       ELSE /\ ExtendAndReturn(b, reports[b])
            /\ UNCHANGED <<cause, corpus, context, files, calls, fails, faults>>
    /\ UNCHANGED <<source, arg, is_comparison, i, rw_i, summary_dict, final_report>>
    /\ UNCHANGED <<instVars, gaVars, utilVars>>

\* the else branch of `if self.source_...`: sec_edgar returns None, the two
\* others return list()
BranchDisabled(b) ==
    /\ st[b] = "running"
    /\ ~Flag(b)
    /\ Return(b, IF b = "sec_edgar" THEN None ELSE List(<<>>))
    /\ UNCHANGED <<source, context, cause, arg, is_comparison, i, reports, corpus, files,
                   report_list, calls, fails, rw_i, summary_dict, final_report, faults>>
    /\ UNCHANGED <<instVars, gaVars, utilVars>>

BranchStart(b) ==
    /\ Begin(b)
    /\ UNCHANGED <<source, context, cause, ret, is_comparison, i, reports, corpus, files,
                   report_list, calls, fails, rw_i, summary_dict, final_report, faults>>
    /\ UNCHANGED <<instVars, gaVars, utilVars>>

sec_edgar_start == BranchStart("sec_edgar")
sec_edgar == BranchEntity("sec_edgar") \/ BranchAggregate("sec_edgar")
                \/ BranchDisabled("sec_edgar")
yfinance_news_start == BranchStart("yfinance_news")
yfinance_news == BranchEntity("yfinance_news") \/ BranchAggregate("yfinance_news")
                    \/ BranchDisabled("yfinance_news")
yfinance_stocks_start == BranchStart("yfinance_stocks")
yfinance_stocks == BranchEntity("yfinance_stocks") \/ BranchAggregate("yfinance_stocks")
                      \/ BranchDisabled("yfinance_stocks")


\* ----------------------------------------------------------- report_writing
report_writing_start ==
    /\ Begin("report_writing")
    /\ UNCHANGED <<source, context, cause, ret, is_comparison, i, reports, corpus, files,
                   report_list, calls, fails, rw_i, summary_dict, final_report, faults>>
    /\ UNCHANGED <<instVars, gaVars, utilVars>>

\* faulty variant: the new record is put in front of the older ones
DictPutFront(d, k) == IF \E j \in 1 .. Len(d) : d[j] = k THEN d ELSE <<k>> \o d

\* summary_dict[report] = ...: a dict keeps one entry per key, in first
\* insertion order
DictPut(d, k) == IF \E j \in 1 .. Len(d) : d[j] = k THEN d ELSE Append(d, k)

\* one iteration of `for report in self.report_list`
report_writing_section ==
    /\ st["report_writing"] = "running"
    /\ rw_i < Len(report_list)
    /\ LET report == report_list[rw_i + 1] IN
       IF report \notin files
       THEN \* open(report, 'r') raises
            /\ Raise("report_writing", "open")
            /\ UNCHANGED <<rw_i, summary_dict, calls, fails, faults>>
       ELSE \E o \in {"ok", "raise1", "raise2"} :
              IF o = "ok"
              THEN /\ Count("report_writing", 2, 0)
                   /\ summary_dict' = DictPut(summary_dict, report)
                   /\ rw_i' = rw_i + 1
                   /\ UNCHANGED <<st, cause, faults>>
              ELSE /\ Raise("report_writing", "task")
                   /\ Inject(1)
                   /\ Count("report_writing", IF o = "raise1" THEN 1 ELSE 2, 1)
                   /\ UNCHANGED <<rw_i, summary_dict>>
    /\ UNCHANGED <<source, context, ret, arg, is_comparison, i, reports, corpus, files,
                   report_list, final_report>>
    /\ UNCHANGED <<instVars, gaVars, utilVars>>

\* generate_final_report, clean_markdown_content, convert_html_to_pdf
report_writing_render ==
    /\ st["report_writing"] = "running"
    /\ rw_i = Len(report_list)
    /\ \/ /\ Raise("report_writing", "render")
          /\ Inject(1)
          /\ UNCHANGED <<ret, final_report>>
       \/ /\ Return("report_writing", None)
          /\ final_report' = TRUE
          /\ UNCHANGED <<cause, faults>>
    /\ UNCHANGED <<source, context, arg, is_comparison, i, reports, corpus, files, report_list,
                   calls, fails, rw_i, summary_dict>>
    /\ UNCHANGED <<instVars, gaVars, utilVars>>

report_writing == report_writing_section \/ report_writing_render

\* the sections the loop of branch b wrote into its corpus: the corpus as
\* the comparison read it, or the corpus file when no comparison read it
ProducedSections(b) ==
    IF context[b] # <<>> THEN context[b] ELSE corpus[GlobalFilename(b)].content


\* ------------------------------------------- construction and repeated runs
\* the values a caller may pass as cache_path
CachePathKinds == {"None", "Path", "str", "other"}

\* faulty variant: the isinstance tests are left out
ValidCachePathAny(k) == TRUE

\* `cache_path is None`, `isinstance(cache_path, Path)`,
\* `isinstance(cache_path, str)`; anything else raises TypeError
ValidCachePath(k) == k \in {"None", "Path", "str"}

\* self.cache_path for an argument of kind k: CACHE_DIR when none is passed,
\* Path(cache_path) for a str, the argument itself otherwise
SelfCachePath(k) ==
    CASE k = "None" -> "CACHE_DIR"
      [] k \in {"Path", "str"} -> "custom"
      [] OTHER -> k

\* faulty variant: the cache directory is left as it is
ClearDirectoryKeep(c) == c

\* os.makedirs(self.cache_path, exist_ok=True); clear_directory(self.cache_path):
\* the corpus files of the three branches live in self.cache_path
ClearDirectory(c) == [f \in DOMAIN c |-> [exists |-> FALSE, content |-> <<>>]]

\* no stage method is running or can be started: the kickoff call is over
RunEnded ==
    \A s \in Stages : st[s] # "running" /\ (st[s] = "idle" => ~Triggered(s))

\* a kickoff begins: the engine forgets the completed methods and their
\* outputs, and the locals of the stage methods are new
ResetRun ==
    /\ st' = [s \in Stages |-> "idle"]
    /\ cause' = [s \in Stages |-> "none"]
    /\ ret' = [s \in Stages |-> None]
    /\ arg' = [s \in Branches \cup {"information_extraction"} |-> None]
    /\ i' = [b \in Branches |-> 0]
    /\ reports' = [b \in Branches |-> <<>>]
    /\ context' = [b \in Branches |-> <<>>]
    /\ calls' = [s \in Stages |-> 0]
    /\ fails' = [s \in Stages |-> 0]
    /\ rw_i' = 0
    /\ summary_dict' = <<>>

\* FinancialFlow(...) with the same query and flags, followed by its
\* kickoff: the constructor sets the attributes, tests cache_path and clears the cache
\* directory; self.is_comparison does not exist on the new object. The generic
\* report, the crews' artifacts and report.md live in CACHE_DIR, which is
\* self.cache_path when no cache_path is passed
FinancialFlow_init ==
    /\ ctor = "ok"
    /\ RunEnded
    /\ run < MaxRuns
    /\ \E k \in CachePathKinds :
         /\ cache_path' = SelfCachePath(k)
         /\ IF ValidCachePath(k)
            THEN /\ ctor' = "ok"
                 /\ run' = run + 1
                 /\ how' = "init"
                 /\ ResetRun
                 /\ report_list' = <<>>
                 /\ is_comparison' = "unset"
                 /\ corpus' = ClearDirectory(corpus)
                 /\ files' = IF k = "None" THEN {} ELSE files
                 /\ final_report' = (k # "None" /\ final_report)
                 /\ UNCHANGED <<source, faults>>
            ELSE /\ ctor' = "TypeError"
                 /\ UNCHANGED <<run, how>>
                 /\ UNCHANGED flowVars
    /\ UNCHANGED <<gaVars, utilVars>>

\* a second finance_flow.kickoff() on the same object: the attributes and
\* the files of the earlier run stay as they are
flow_kickoff ==
    /\ ctor = "ok"
    /\ RunEnded
    /\ run < MaxRuns
    /\ run' = run + 1
    /\ how' = "kickoff"
    /\ ResetRun
    /\ UNCHANGED <<source, is_comparison, corpus, files, report_list, final_report,
                   faults, cache_path, ctor>>
    /\ UNCHANGED <<gaVars, utilVars>>

\* ------------------------------------------------------------ get_analysis
Outputs == {"out1", "out2"}
Errors == {"err1", "err2"}
KeyErrorText == "'usage'"
Unbound == [kind |-> "unbound", text |-> ""]
Content(t) == [kind |-> "content", text |-> t]
\* f'The model endpoint returned the following error: {error_message}'
Degraded(msg) == [kind |-> "degraded", text |-> msg]

\* faulty variant: `while retries <= self.max_retries`
LoopCondInclusive(r, m) == r <= m

\* `while retries < self.max_retries`
LoopCond(r, m) == r < m

\* faulty variant: `if retries == self.max_retries - 1`
ExhaustedEarly(r, m) == r = m - 1

\* `if retries == self.max_retries`
Exhausted(r, m) == r = m

\* the argument of time.sleep
SleepSeconds == 10

\* faulty variant: the wait grows with the number of failed attempts
SleepBackoff(r) == SleepSeconds * r

\* `time.sleep(10)` after the r-th failed attempt
Sleep(r) == SleepSeconds

\* one iteration of the while loop: self.llm.invoke and what follows
\*   ok       : invoke returns a response with usage metadata -> break
\*   no_usage : invoke returns, response_metadata['usage'] raises KeyError
\*   raise    : invoke raises
ga_attempt ==
    /\ ga_pc = "loop"
    /\ LoopCond(retries, max_retries)
    /\ invocations' = invocations + 1
    /\ \/ \E t \in Outputs :
            /\ completion' = Content(t)
            /\ usage' = "usage"
            /\ ga_pc' = "check"
            /\ last_outcome' = "ok"
            /\ last_output' = t
            /\ UNCHANGED <<retries, error_message, last_error, sleeps>>
       \/ \E t \in Outputs :
            /\ completion' = Content(t)
            /\ retries' = retries + 1
            /\ sleeps' = Append(sleeps, Sleep(retries'))
            /\ error_message' = KeyErrorText
            /\ last_outcome' = "no_usage"
            /\ last_error' = KeyErrorText
            /\ UNCHANGED <<usage, ga_pc, last_output>>
       \/ \E e \in Errors :
            /\ retries' = retries + 1
            /\ sleeps' = Append(sleeps, Sleep(retries'))
            /\ error_message' = e
            /\ last_outcome' = "raise"
            /\ last_error' = e
            /\ UNCHANGED <<completion, usage, ga_pc, last_output>>
    /\ UNCHANGED max_retries
    /\ UNCHANGED <<flowVars, instVars, utilVars>>

\* the code after the loop: the exhaustion test and the return statement;
\* returning an unassigned local raises UnboundLocalError
ga_return ==
    /\ \/ ga_pc = "check"
       \/ ga_pc = "loop" /\ ~LoopCond(retries, max_retries)
    /\ LET c == IF Exhausted(retries, max_retries) THEN Degraded(error_message)
                ELSE completion
           u == IF Exhausted(retries, max_retries) THEN "None" ELSE usage
       IN /\ completion' = c
          /\ usage' = u
          /\ ga_pc' = IF c.kind = "unbound" \/ u = "unbound" THEN "raised" ELSE "returned"
    /\ UNCHANGED <<max_retries, retries, error_message, invocations, last_outcome,
                   last_error, last_output, sleeps>>
    /\ UNCHANGED <<flowVars, instVars, utilVars>>

\* ------------------------------------------------------------------- Guard
MaxMessages == 2   \* messages of a conversation passed to evaluate

\* the category ids of the guardrails file, in file order
Categories == <<"S1", "S2">>
CategoryIds == {Categories[k] : k \in 1 .. Len(Categories)}

\* the 'enabled' entry of a guardrail: true, false, or not written
EnabledEntries == {"true", "false", "absent"}

\* v.get('enabled') taken as a condition
Enabled(v) == v = "true"

\* the dictionary comprehension enabled_guardrails
EnabledGuardrails(y) == [k \in {c \in DOMAIN y : Enabled(y[c])} |-> y[k]]

\* guardrails_str: one entry per enabled guardrail, in file order
GuardrailsStr(y) == SelectSeq(Categories, LAMBDA c : c \in DOMAIN EnabledGuardrails(y))

\* load_guardrails returns the dictionary as loaded and the formatted string
load_guardrails(y) == <<y, GuardrailsStr(y)>>

Roles == {"user", "User", "assistant", "system"}

\* str.lower on the roles explored
Lower(r) == IF r = "User" THEN "user" ELSE r

\* the prefix evaluate writes in front of a message of a lowered role
Prefix(r) == IF r = "user" THEN "User" ELSE "Assistant"

\* input_query: a string, a list of messages (their roles), or anything else
InputQueries ==
    {[kind |-> "str", roles |-> <<>>], [kind |-> "other", roles |-> <<>>]}
    \cup {[kind |-> "list", roles |-> m] :
            m \in UNION {[1 .. n -> Roles] : n \in 0 .. MaxMessages}}

\* the loop over the messages of a conversation: messages of any other role
\* are skipped
ParseMessages(m) ==
    LET kept == SelectSeq(m, LAMBDA r : Lower(r) \in {"user", "assistant"})
    IN [k \in 1 .. Len(kept) |-> Prefix(Lower(kept[k]))]

\* result.content: lines of comma-separated tokens
Contents ==
    {<<<<"safe">>>>, <<<<"unsafe">>>>, <<<<"unsafe">>, <<"S1">>>>,
     <<<<"unsafe">>, <<"S2">>>>, <<<<"unsafe">>, <<"S1", "S2">>>>}

\* 'unsafe' in result.content
Unsafe(c) == \E l \in 1 .. Len(c) : \E t \in 1 .. Len(c[l]) : c[l][t] = "unsafe"

\* result.content.split('\n')[-1].split(',')
LastLineTokens(c) == {c[Len(c)][t] : t \in 1 .. Len(c[Len(c)])}

\* the list comprehension over self.guardrails.items()
ViolatedCategories(g, c) ==
    SelectSeq(Categories, LAMBDA k : k \in DOMAIN g /\ k \in LastLineTokens(c))

DefaultErrorMessage == "The message violate guardrails"

NoOut == [kind |-> "none", error_message |-> "", categories |-> <<>>]

\* Guard.__init__: loads the guardrails file
Guard_init ==
    /\ guard_pc = "new"
    /\ guardrails' = load_guardrails(guardrails_yaml)[1]
    /\ parsed_guardrails' = load_guardrails(guardrails_yaml)[2]
    /\ guard_pc' = "ready"
    /\ UNCHANGED <<guardrails_yaml, evaluate_args, conversation, guard_invocations,
                   guard_result, guard_out>>
    /\ UNCHANGED <<flowVars, instVars, gaVars, judgeVars>>

\* evaluate up to the guardrail model call: the conversation is built
evaluate_begin ==
    /\ guard_pc = "ready"
    /\ \E q \in InputQueries, r \in Roles, em \in {"None", "custom"},
          rgt \in BOOLEAN, rex \in BOOLEAN :
         /\ evaluate_args' = [input_query |-> q, role |-> r, error_message |-> em,
                              return_guardrail_type |-> rgt, raise_exception |-> rex]
         /\ IF q.kind = "str"
            THEN IF Lower(r) \in {"user", "assistant"}
                 THEN /\ conversation' = <<Prefix(Lower(r))>>
                      /\ guard_pc' = "invoke"
                      /\ UNCHANGED guard_out
                 ELSE /\ guard_pc' = "raised"
                      /\ guard_out' = [kind |-> "ValueError",
                                       error_message |-> "Invalid role",
                                       categories |-> <<>>]
                      /\ UNCHANGED conversation
            ELSE IF q.kind = "list"
                 THEN /\ conversation' = ParseMessages(q.roles)
                      /\ guard_pc' = "invoke"
                      /\ UNCHANGED guard_out
                 ELSE \* conversation is read unassigned when values is built
                      /\ guard_pc' = "raised"
                      /\ guard_out' = [kind |-> "UnboundLocalError",
                                       error_message |-> "",
                                       categories |-> <<>>]
                      /\ UNCHANGED conversation
    /\ UNCHANGED <<guardrails_yaml, guardrails, parsed_guardrails, guard_invocations,
                   guard_result>>
    /\ UNCHANGED <<flowVars, instVars, gaVars, judgeVars>>

\* evaluate from the guardrail model call to its end
evaluate_invoke ==
    /\ guard_pc = "invoke"
    /\ guard_invocations' = guard_invocations + 1
    /\ \/ \* self.llm.invoke raises
          /\ guard_pc' = "raised"
          /\ guard_out' = [kind |-> "Exception", error_message |-> "", categories |-> <<>>]
          /\ UNCHANGED guard_result
       \/ \E c \in Contents :
            LET msg == IF evaluate_args.error_message = "None"
                       THEN DefaultErrorMessage
                       ELSE evaluate_args.error_message
                response_msg == [error_message |-> msg,
                                 categories |-> ViolatedCategories(guardrails, c)]
            IN /\ guard_result' = c
               /\ IF Unsafe(c)
                  THEN IF evaluate_args.raise_exception
                       THEN /\ guard_pc' = "raised"
                            /\ guard_out' = [kind |-> "ValueError"] @@ response_msg
                       ELSE /\ guard_pc' = "returned"
                            /\ guard_out' =
                                 IF evaluate_args.return_guardrail_type
                                 THEN [kind |-> "response_msg"] @@ response_msg
                                 ELSE [kind |-> "error_message", error_message |-> msg,
                                       categories |-> <<>>]
                  ELSE /\ guard_pc' = "returned"
                       /\ guard_out' = [kind |-> "input_query", error_message |-> "",
                                        categories |-> <<>>]
    /\ UNCHANGED <<guardrails_yaml, guardrails, parsed_guardrails, evaluate_args,
                   conversation>>
    /\ UNCHANGED <<flowVars, instVars, gaVars, judgeVars>>

\* ------------------------------------------- CorrectnessLLMJudge and models
\* Optional[bool] values of include_usage
IncludeUsageValues == {"True", "False", "None"}
NormalizeScores == {0, 1, 2}

\* a value taken as a condition
Truthy(v) == v = "True"

\* the dictionary a predict method returns; a key that is missing is "absent",
\* a key bound to None is "None"; usage is "None", "empty" ({}) or "dict"
ModelOutput(c, u, x) == [completion |-> c, usage |-> u, context |-> x]
NoOutput == ModelOutput("absent", "absent", "absent")

\* dict.get(key, None)
Get(v) == IF v = "absent" THEN "None" ELSE v

\* WeaveChatModel.predict
WeaveChatModel_predict ==
    /\ predict_pc = "idle"
    /\ \/ \* APIGateway.load_chat raises, outside the try block
          /\ predict_pc' = "raised"
          /\ UNCHANGED model_output
       \/ \* client.invoke returns; the metadata holds usage or does not
          /\ \E u \in {"dict", "None"} : model_output' = ModelOutput("text", u, "absent")
          /\ predict_pc' = "returned"
       \/ \* the try block raises
          /\ model_output' = ModelOutput("<Error>", "empty", "absent")
          /\ predict_pc' = "returned"
    /\ UNCHANGED <<include_usage, normalize_score, score_pc, judge_invocations,
                   judge_outcome, score_out>>
    /\ UNCHANGED <<flowVars, instVars, gaVars, guardVars>>

\* WeaveRAGModel.predict
WeaveRAGModel_predict ==
    /\ predict_pc = "idle"
    /\ \E c \in {"text", "None"}, x \in {"ctx", "None"} :
         model_output' = IF x # "None"
                         THEN ModelOutput(c, "absent", x)
                         ELSE ModelOutput(c, "absent", "absent")
    /\ predict_pc' = "returned"
    /\ UNCHANGED <<include_usage, normalize_score, score_pc, judge_invocations,
                   judge_outcome, score_out>>
    /\ UNCHANGED <<flowVars, instVars, gaVars, guardVars>>

\* what judge.invoke (the chat model piped into JsonOutputParser) does: it
\* raises, returns something that is no dictionary, or returns a dictionary
JudgeRecord(k, ha, a, hc, c) ==
    [kind |-> k, has_answer |-> ha, answer_score |-> a, has_context |-> hc,
     context_score |-> c]
JudgeNone == JudgeRecord("none", FALSE, 0, FALSE, 0)
JudgeOutcomes ==
    {JudgeRecord("raise", FALSE, 0, FALSE, 0), JudgeRecord("not_dict", FALSE, 0, FALSE, 0)}
    \cup {JudgeRecord("dict", FALSE, 0, hc, c) :
            hc \in BOOLEAN, c \in {0, 2}}
    \cup {JudgeRecord("dict", TRUE, a, hc, c) :
            a \in {0, 4}, hc \in BOOLEAN, c \in {0, 2}}

\* the try block of score raises: the call, the subscript or the division
TryFails(o, n) == o.kind # "dict" \/ ~o.has_answer \/ n = 0

ScoreRecord(k, s, r, a, hc, c, u) ==
    [kind |-> k, score |-> s, reason |-> r, answer_score |-> a,
     has_context |-> hc, context_score |-> c, usage |-> u]
ScoreNone == ScoreRecord("none", 0, "", 0, FALSE, 0, "absent")

\* the dictionary returned for a missing completion or a failed judge call
ScoreFailed(r) == ScoreRecord("returned", -1, r, 0, FALSE, 0, "absent")

\* the judge's dictionary after the two normalisations
Normalized(o, n) ==
    ScoreRecord("returned", 0, "", o.answer_score \div n, o.has_context,
                IF o.has_context /\ o.context_score # 0
                THEN o.context_score \div n
                ELSE o.context_score,
                "absent")

\* the condition of the final update
UpdateCond(m, iu) == m.usage # "absent" /\ Truthy(iu)

\* CorrectnessLLMJudge.score
score ==
    /\ predict_pc = "returned"
    /\ score_pc = "idle"
    /\ IF Get(model_output.completion) = "None"
       THEN /\ score_pc' = "returned"
            /\ score_out' = ScoreFailed("Completion not found")
            /\ UNCHANGED <<judge_invocations, judge_outcome>>
       ELSE \/ \* APIGateway.load_chat raises, outside the try block
               /\ score_pc' = "raised"
               /\ score_out' = ScoreRecord("Exception", 0, "", 0, FALSE, 0, "absent")
               /\ UNCHANGED <<judge_invocations, judge_outcome>>
            \/ \E o \in JudgeOutcomes :
                 /\ judge_invocations' = judge_invocations + 1
                 /\ judge_outcome' = o
                 /\ IF TryFails(o, normalize_score)
                    THEN /\ score_pc' = "returned"
                         /\ score_out' = ScoreFailed("Completion not completed")
                    ELSE IF UpdateCond(model_output, include_usage)
                         THEN IF model_output.usage = "None"
                              THEN \* result.update(None)
                                   /\ score_pc' = "raised"
                                   /\ score_out' = ScoreRecord("TypeError", 0, "", 0,
                                                               FALSE, 0, "absent")
                              ELSE /\ score_pc' = "returned"
                                   /\ score_out' =
                                        [Normalized(o, normalize_score)
                                           EXCEPT !.usage = model_output.usage]
                         ELSE /\ score_pc' = "returned"
                              /\ score_out' = Normalized(o, normalize_score)
    /\ UNCHANGED <<include_usage, normalize_score, model_output, predict_pc>>
    /\ UNCHANGED <<flowVars, instVars, gaVars, guardVars>>

\* ------------------------------------------------------------------- specs
InitFlow ==
    /\ source \in [Sources -> BOOLEAN]
    /\ st = [s \in Stages |-> "idle"]
    /\ cause = [s \in Stages |-> "none"]
    /\ ret = [s \in Stages |-> None]
    /\ arg = [s \in Branches \cup {"information_extraction"} |-> None]
    /\ is_comparison = "unset"
    /\ i = [b \in Branches |-> 0]
    /\ reports = [b \in Branches |-> <<>>]
    /\ corpus = [f \in CorpusFiles |-> [exists |-> FALSE, content |-> <<>>]]
    /\ context = [b \in Branches |-> <<>>]
    /\ files = {}
    /\ report_list = <<>>
    /\ calls = [s \in Stages |-> 0]
    /\ fails = [s \in Stages |-> 0]
    /\ rw_i = 0
    /\ summary_dict = <<>>
    /\ final_report = FALSE
    /\ faults = 0
    /\ run = 1
    /\ cache_path = "CACHE_DIR"
    /\ ctor = "ok"
    /\ how = "first"

InitGA ==
    /\ ga_pc = "loop"
    /\ retries = 0
    /\ error_message = ""
    /\ completion = Unbound
    /\ usage = "unbound"
    /\ invocations = 0
    /\ last_outcome = "none"
    /\ last_error = ""
    /\ last_output = ""
    /\ sleeps = <<>>

\* no Guard constructed, no predict and no score call made
InitGuardIdle ==
    /\ guard_pc = "new"
    /\ guardrails = [c \in {} |-> "absent"]
    /\ parsed_guardrails = <<>>
    /\ evaluate_args = [input_query |-> [kind |-> "other", roles |-> <<>>],
                        role |-> "user", error_message |-> "None",
                        return_guardrail_type |-> TRUE, raise_exception |-> FALSE]
    /\ conversation = <<"unbound">>
    /\ guard_invocations = 0
    /\ guard_result = <<>>
    /\ guard_out = NoOut

InitJudgeIdle ==
    /\ model_output = NoOutput
    /\ predict_pc = "idle"
    /\ score_pc = "idle"
    /\ judge_invocations = 0
    /\ judge_outcome = JudgeNone
    /\ score_out = ScoreNone

InitUtils ==
    /\ InitGuardIdle
    /\ guardrails_yaml = [c \in CategoryIds |-> "true"]
    /\ InitJudgeIdle
    /\ include_usage = "False"
    /\ normalize_score = 1

Init == InitFlow /\ InitGA /\ InitUtils /\ max_retries = 0

NextFlow ==
    \/ generic_research_start
    \/ generic_research
    \/ query_decomposition_start
    \/ query_decomposition
    \/ information_extraction_start
    \/ information_extraction
    \/ sec_edgar_start
    \/ sec_edgar
    \/ yfinance_news_start
    \/ yfinance_news
    \/ yfinance_stocks_start
    \/ yfinance_stocks
    \/ report_writing_start
    \/ report_writing

Next == NextFlow

Spec == Init /\ [][Next]_vars

\* get_analysis alone, for every configured max_retries in the explored range
InitRetry ==
    /\ InitGA
    /\ InitUtils
    /\ max_retries \in -1 .. MaxRetriesBound
    /\ InitFlow
    /\ source = [x \in Sources |-> FALSE]

NextRetry == ga_attempt \/ ga_return

SpecRetry == InitRetry /\ [][NextRetry]_vars

\* runs in a row of a flow with one source flag at most, in an environment
\* that injects no failure
InitRerun ==
    /\ InitGA
    /\ InitUtils
    /\ max_retries = 0
    /\ source \in {f \in [Sources -> BOOLEAN] :
                     Cardinality({k \in Sources : f[k]}) <= 1}
    /\ st = [s \in Stages |-> "idle"]
    /\ cause = [s \in Stages |-> "none"]
    /\ ret = [s \in Stages |-> None]
    /\ arg = [s \in Branches \cup {"information_extraction"} |-> None]
    /\ is_comparison = "unset"
    /\ i = [b \in Branches |-> 0]
    /\ reports = [b \in Branches |-> <<>>]
    /\ corpus = [f \in CorpusFiles |-> [exists |-> FALSE, content |-> <<>>]]
    /\ context = [b \in Branches |-> <<>>]
    /\ files = {}
    /\ report_list = <<>>
    /\ calls = [s \in Stages |-> 0]
    /\ fails = [s \in Stages |-> 0]
    /\ rw_i = 0
    /\ summary_dict = <<>>
    /\ final_report = FALSE
    /\ faults = MaxFaults
    /\ run = 1
    /\ how = "first"
    /\ \E k \in CachePathKinds :
         /\ cache_path = SelfCachePath(k)
         /\ ctor = IF ValidCachePath(k) THEN "ok" ELSE "TypeError"

NextRerun == NextFlow \/ FinancialFlow_init \/ flow_kickoff

SpecRerun == InitRerun /\ [][NextRerun]_vars

\* termination: one kickoff of a flow with one source flag at most, or one
\* call of get_analysis for every configured max_retries. The engine runs
\* every method it has triggered and every crew kickoff and llm.invoke
\* returns or raises, so a step that can be taken is taken
InitLive ==
    \/ /\ Init
       /\ Cardinality({k \in Sources : source[k]}) <= 1
    \/ InitRetry

NextLive == NextFlow \/ NextRetry

SpecLive == InitLive /\ [][NextLive]_vars /\ WF_vars(NextFlow) /\ WF_vars(NextRetry)

\* a Guard is constructed over every guardrails file explored and evaluate is
\* called once with every input explored
InitGuard ==
    /\ InitFlow
    /\ source = [x \in Sources |-> FALSE]
    /\ InitGA
    /\ max_retries = 0
    /\ InitGuardIdle
    /\ guardrails_yaml \in [CategoryIds -> EnabledEntries]
    /\ InitJudgeIdle
    /\ include_usage = "False"
    /\ normalize_score = 1

NextGuard == Guard_init \/ evaluate_begin \/ evaluate_invoke

SpecGuard == InitGuard /\ [][NextGuard]_vars

\* one predict call and one score call, for every configuration of the judge
InitJudge ==
    /\ InitFlow
    /\ source = [x \in Sources |-> FALSE]
    /\ InitGA
    /\ max_retries = 0
    /\ InitGuardIdle
    /\ guardrails_yaml = [c \in CategoryIds |-> "true"]
    /\ InitJudgeIdle
    /\ include_usage \in IncludeUsageValues
    /\ normalize_score \in NormalizeScores

NextJudge == WeaveChatModel_predict \/ WeaveRAGModel_predict \/ score

SpecJudge == InitJudge /\ [][NextJudge]_vars


\* ================================================================== claims
JoinPreds == {"generic_research"} \cup Branches

\* the artifacts a completed stage contributed to the global list
Block(s) == IF ret[s].kind \in {"list", "str"} THEN ret[s].val ELSE <<>>

\* the entity artifacts of branch b in entity-input order
EntityHandles(b) == [k \in 1 .. Len(arg[b].val) |-> Handle(b, arg[b].val[k])]

\* C1: report_writing is never started before generic_research, sec_edgar,
\* yfinance_news and yfinance_stocks have all returned, enabled or not, with
\* or without artifacts.
C1_JoinBarrier ==
    st["report_writing"] # "idle" => \A p \in JoinPreds : st[p] = "done"

\* C1 witness: synthesis has started behind two disabled stages and two
\* enabled branches, one of them with an unreadable artifact
C1_Witness ==
    /\ st["report_writing"] = "running"
    /\ ~source["generic"]
    /\ ~source["stocks"]
    /\ source["news"]
    /\ Len(Block("yfinance_news")) = 1
    /\ source["sec"]
    /\ Len(Block("sec_edgar")) = 1
    /\ Handle("sec_edgar", 1) \notin files


\* C2: information_extraction is never started before query_decomposition
\* has returned, no branch is started before information_extraction has
\* returned, and every started branch holds as its argument exactly the value
\* information_extraction returned.
C2_StageGating ==
    /\ st["information_extraction"] # "idle" => st["query_decomposition"] = "done"
    /\ \A b \in Branches :
         st[b] # "idle" => /\ st["information_extraction"] = "done"
                           /\ arg[b] = ret["information_extraction"]

\* C2 witness: the three branches run on a two-entity list given in
\* descending order
C2_Witness ==
    /\ \A b \in Branches : st[b] = "running" /\ arg[b] = List(<<2, 1>>)
    /\ i["yfinance_news"] = 1

\* C3 as stated: when synthesis starts the global list is the generic block,
\* then the SEC block, then the news block, then the stocks block.
C3_FixedOrder ==
    st["report_writing"] # "idle" =>
        report_list = Block("generic_research") \o Block("sec_edgar")
                        \o Block("yfinance_news") \o Block("yfinance_stocks")

\* a step in which stage s returns
Completes(s) == st[s] # "done" /\ st'[s] = "done"

\* C3 amended: the global list grows only when one of the four stages
\* returns, and then by that stage's whole block at its end, so the blocks
\* stand in the order in which the stages finished; the block of a branch
\* starts with one artifact per entity in entity-input order.
C3_CompletionOrder ==
    [][\/ /\ \A s \in JoinPreds : ~Completes(s)
          /\ report_list' = report_list
       \/ \E s \in JoinPreds :
            /\ Completes(s)
            /\ report_list' = report_list \o Block(s)'
            /\ s \in Branches /\ Flag(s) =>
                 SubSeq(Block(s)', 1, Len(arg[s].val)) = EntityHandles(s)]_vars

\* C3 witness: synthesis has started on a list in which the generic report
\* stands behind the two-artifact block of a branch
C3_Witness ==
    /\ st["report_writing"] = "running"
    /\ Len(report_list) = 3
    /\ report_list[3] = Handle("generic_research", 0)
    /\ report_list[1] = Handle("yfinance_news", 2)

\* C4: once generic_research, query_decomposition, information_extraction
\* or a branch has raised, report_writing has not been started and is never
\* started, and no final report exists.
C4_FailureIsFatal ==
    (\E s \in Stages \ {"report_writing"} : st[s] = "failed")
        => st["report_writing"] = "idle" /\ ~final_report

\* C4 witness: one branch raised while the three other predecessors of the
\* join returned
C4_Witness ==
    /\ st["sec_edgar"] = "failed"
    /\ \A s \in JoinPreds \ {"sec_edgar"} : st[s] = "done"
    /\ Len(report_list) > 0

\* C5 as stated: no branch loop is left because an entity's artifact file
\* could not be opened: a branch never ends with an I/O error while entities
\* of its list are unprocessed.
C5_LoopNeverAborted ==
    \A b \in Branches :
        ~(/\ st[b] = "failed"
          /\ cause[b] \in {"tables", "corpus", "open"}
          /\ i[b] < Len(arg[b].val))

\* C6 as stated: unreadable entity artifacts never make a stage raise: no
\* stage ends with the error of opening a corpus file or a report file.
C6_EntityIOAbsorbed ==
    \A s \in Stages : ~(st[s] = "failed" /\ cause[s] \in {"corpus", "open"})

CallSites(s) ==
    CASE s \in Branches -> NumCalls(s) * Len(arg[s].val) + 1
      [] s = "report_writing" -> 2 * Len(report_list)
      [] OTHER -> 1

Finished == ga_pc \in {"returned", "raised"}

\* C7: when every call of the collaborator failed, get_analysis has made
\* exactly max_retries calls and has returned (not raised) the degraded text
\* built from the error of the last failed call.
C7_RetryBound ==
    (Finished /\ max_retries >= 0 /\ last_outcome # "ok") =>
        /\ ga_pc = "returned"
        /\ invocations = max_retries
        /\ completion.kind = "degraded"
        /\ max_retries > 0 => completion.text = last_error

\* C7 witness: three failing calls, the last with error err2
C7_Witness ==
    /\ ga_pc = "returned"
    /\ max_retries = 3
    /\ invocations = 3
    /\ last_outcome = "raise"
    /\ completion = Degraded("err2")
    /\ usage = "None"

\* C8 as stated: get_analysis never ends with an unhandled error.
C8_NeverRaises == ga_pc # "raised"

Completed(b) == Flag(b) /\ st[b] = "done"

\* the entity artifacts of a branch's local list (entity 0 is the comparison)
EntityArtifacts(b) == SelectSeq(reports[b], LAMBDA h : h[2] # 0)

\* the comparison artifacts of a branch's local list
ComparisonArtifacts(b) == SelectSeq(reports[b], LAMBDA h : h[2] = 0)

\* the comparison crew of branch b was kicked off: the branch made a kickoff
\* beyond those of its loop iterations
ComparisonInvoked(b) == calls[b] > NumCalls(b) * Len(arg[b].val)

\* C11: in an enabled branch the comparison crew is kicked off, or a
\* comparison artifact stands in the list, only if the list holds more than
\* one entity artifact and is_comparison is true; a branch that returned has
\* kicked it off and appended exactly one comparison artifact, as last
\* element, in that cell, and none in the three other cells.
C11_ComparisonTruthTable ==
    \A b \in Branches :
        Flag(b) /\ st[b] # "idle" =>
            LET cell == Len(EntityArtifacts(b)) > 1 /\ is_comparison = "true" IN
            /\ (ComparisonInvoked(b) \/ Len(ComparisonArtifacts(b)) > 0) => cell
            /\ Completed(b) =>
                 /\ ComparisonInvoked(b) <=> cell
                 /\ Len(ComparisonArtifacts(b)) = (IF cell THEN 1 ELSE 0)
                 /\ cell => reports[b][Len(reports[b])] = Handle(b, 0)

\* C11 witness: a branch returned with two entity artifacts and the
\* comparison artifact while another enabled branch has not run its
\* comparison yet
C11_Witness ==
    /\ Completed("sec_edgar")
    /\ reports["sec_edgar"] = <<Handle("sec_edgar", 1), Handle("sec_edgar", 2),
                                Handle("sec_edgar", 0)>>
    /\ ComparisonInvoked("sec_edgar")
    /\ Flag("yfinance_news") /\ st["yfinance_news"] = "running"
    /\ ~ComparisonInvoked("yfinance_news")


\* the entities whose artifact was read and written into the corpus
ProducedEntities(b) ==
    {ProducedSections(b)[k].company : k \in 1 .. Len(ProducedSections(b))}

\* C12 as stated: the list of a branch that returned has one handle per
\* successfully produced entity artifact, plus one if the comparison ran,
\* and no handle of an entity whose artifact I/O failed.
C12_LengthCountsProduced ==
    \A b \in Branches :
        Completed(b) =>
            /\ Len(reports[b]) = Cardinality(ProducedEntities(b))
                                   + (IF ComparisonInvoked(b) THEN 1 ELSE 0)
            /\ \A k \in 1 .. Len(arg[b].val) :
                 arg[b].val[k] \notin ProducedEntities(b) =>
                     \A j \in 1 .. Len(reports[b]) :
                         reports[b][j] # Handle(b, arg[b].val[k])

\* whether sequence s is t with some elements left out
RECURSIVE IsSubSeq(_, _)
IsSubSeq(s, t) ==
    IF s = <<>> THEN TRUE
    ELSE IF t = <<>> THEN FALSE
    ELSE IF Head(s) = Head(t) THEN IsSubSeq(Tail(s), Tail(t))
    ELSE IsSubSeq(s, Tail(t))

\* C13: the entity artifacts in the list of a branch that returned stand in
\* the order of their entities in the input list, at most one per input
\* entity, for lists of every length 0 .. MaxEntities.
C13_EntityOrder ==
    \A b \in Branches :
        Completed(b) =>
            /\ IsSubSeq(EntityArtifacts(b), EntityHandles(b))
            /\ Len(EntityArtifacts(b)) <= Len(arg[b].val)

\* C13 witness: a branch returned on the descending list of MaxEntities
\* entities, one of which met an exception in the try block
C13_Witness ==
    /\ Completed("yfinance_news")
    /\ Len(arg["yfinance_news"].val) = MaxEntities
    /\ arg["yfinance_news"].val[1] = MaxEntities
    /\ Len(EntityArtifacts("yfinance_news")) = MaxEntities
    /\ Cardinality(ProducedEntities("yfinance_news")) = MaxEntities - 1


\* the entries of the global list that stage s put there
EntriesOf(l, s) == SelectSeq(l, LAMBDA h : h[1] = s)

\* C14: the global report list is append-only and grows only in the step in
\* which a stage returns: a branch then adds its whole list, after its loop
\* and its aggregation, generic_research its one artifact after its task
\* returned; an old entry is never removed or moved, and a stage that has not
\* returned (running or failed part-way) has no entry in the list.
C14_AppendOnly ==
    [][/\ Len(report_list') >= Len(report_list)
       /\ SubSeq(report_list', 1, Len(report_list)) = report_list
       /\ report_list' # report_list =>
            \E s \in JoinPreds :
              /\ Completes(s)
              /\ report_list' = report_list \o Block(s)'
              /\ s \in Branches =>
                   /\ i[s] = Len(arg[s].val)
                   /\ Block(s)' = reports'[s]
              /\ s = "generic_research" =>
                   /\ calls'[s] = calls[s] + 1
                   /\ fails'[s] = fails[s]
       /\ \A s \in JoinPreds :
            st'[s] # "done" => EntriesOf(report_list', s) = <<>>]_vars

\* C14 witness: a branch failed after its first entity had appended a handle
\* to the local list, and the global list holds only the block of another
\* branch that returned
C14_Witness ==
    /\ st["sec_edgar"] = "failed"
    /\ Len(reports["sec_edgar"]) >= 1
    /\ st["yfinance_news"] = "done"
    /\ Len(Block("yfinance_news")) = 2
    /\ report_list = Block("yfinance_news")


C16_DisabledReturnsEmpty ==
    \A s \in Stages \ {"report_writing"} :
        ~Flag(s) /\ st[s] = "done" =>
            /\ calls[s] = 0
            /\ EntriesOf(report_list, s) = <<>>
            /\ s \in Branches =>
                 /\ corpus[GlobalFilename(s)] = [exists |-> FALSE, content |-> <<>>]
                 /\ ret[s] = List(<<>>)


\* all four source flags are false
AllOff == \A k \in Sources : ~source[k]

\* C17: with all four flags false no crew is kicked off before synthesis,
\* query_decomposition returns the single original query with is_comparison
\* false, synthesis starts on an empty global list and runs zero sections,
\* and no stage fails: the only exception left is one raised by the render
\* step itself.
C17_AllFlagsOff ==
    AllOff =>
        /\ \A s \in Stages : calls[s] = 0
        /\ st["query_decomposition"] = "done" =>
             /\ ret["query_decomposition"].kind = "SubQueriesList"
             /\ ret["query_decomposition"].queries_list = <<"query">>
             /\ ret["query_decomposition"].is_comparison = FALSE
        /\ st["report_writing"] # "idle" =>
             /\ report_list = <<>>
             /\ rw_i = 0
             /\ summary_dict = <<>>
        /\ \A s \in Stages :
             st[s] = "failed" =>
                 s = "report_writing" /\ cause[s] = "render" /\ faults > 0

\* C17 witness: the run with all four flags false rendered its final report
C17_Witness ==
    /\ AllOff
    /\ \A s \in Stages : st[s] = "done"
    /\ final_report
    /\ faults = 0


\* none of the SEC, news and stocks flags is set
NoneSet == ~source["sec"] /\ ~source["news"] /\ ~source["stocks"]

\* the stages behind query_decomposition
Downstream == {"information_extraction"} \cup Branches

\* C18 as stated: when none of the three flags is set, information_extraction
\* and the three branches are never invoked.
C18_NeverInvoked ==
    NoneSet => \A s \in Downstream : st[s] = "idle"

\* C18 amended: when none of the three flags is set, information_extraction
\* and the three branches are still invoked, in disabled mode: none of them
\* kicks off a task or fails, information_extraction and sec_edgar return
\* None, yfinance_news and yfinance_stocks the empty list, and synthesis
\* starts only after all four have returned.
C18_InvokedDisabled ==
    NoneSet =>
        \A s \in Downstream :
            /\ calls[s] = 0
            /\ st[s] # "failed"
            /\ st[s] = "done" =>
                 ret[s] = (IF s \in {"yfinance_news", "yfinance_stocks"}
                           THEN List(<<>>) ELSE None)
            /\ st["report_writing"] # "idle" => st[s] = "done"

\* C18 witness: with only the generic flag set the final report was rendered
\* after the four stages had been invoked and had returned
C18_Witness ==
    /\ NoneSet
    /\ source["generic"]
    /\ \A s \in Downstream : st[s] = "done"
    /\ st["report_writing"] = "done"
    /\ report_list = <<Handle("generic_research", 0)>>


\* only the stocks flag is set, and the stocks branch was invoked on two
\* entities of a comparison query
StocksComparison ==
    /\ source["stocks"]
    /\ ~source["generic"] /\ ~source["sec"] /\ ~source["news"]
    /\ st["yfinance_stocks"] # "idle"
    /\ arg["yfinance_stocks"].kind = "list"
    /\ Len(arg["yfinance_stocks"].val) = 2
    /\ is_comparison = "true"

\* C19: with only the stocks flag set, two entities and is_comparison true,
\* the stocks branch returns its two entity artifacts followed by the
\* comparison artifact, generic_research, sec_edgar and yfinance_news kick
\* off nothing and add nothing, synthesis starts on a global list of exactly
\* these 3 entries and renders 3 summarized sections.
C19_StocksOnlyComparison ==
    StocksComparison =>
        /\ st["yfinance_stocks"] = "done" =>
             ret["yfinance_stocks"] =
                 List(EntityHandles("yfinance_stocks")
                        \o <<Handle("yfinance_stocks", 0)>>)
        /\ \A s \in {"generic_research", "sec_edgar", "yfinance_news"} :
             /\ calls[s] = 0
             /\ EntriesOf(report_list, s) = <<>>
             /\ st[s] = "done" => Block(s) = <<>>
        /\ st["report_writing"] # "idle" =>
             /\ Len(report_list) = 3
             /\ report_list = Block("yfinance_stocks")
        /\ st["report_writing"] = "done" =>
             /\ Len(summary_dict) = 3
             /\ summary_dict = report_list
             /\ calls["report_writing"] = 6

\* C19 witness: that run rendered its final report
C19_Witness ==
    /\ StocksComparison
    /\ st["report_writing"] = "done"
    /\ final_report
    /\ Len(summary_dict) = 3
    /\ summary_dict[3] = Handle("yfinance_stocks", 0)


\* C20 as stated: whenever the comparison crew of a branch is kicked off, the
\* corpus it reads holds exactly one section per artifact of the branch's
\* list, in artifact order, each section being start delimiter, title line
\* (company, for sec_edgar also the year), artifact content, end delimiter.
C20_CorpusOneSectionPerArtifact ==
    \A b \in Branches :
        ComparisonInvoked(b) =>
            context[b] = [k \in 1 .. Len(arg[b].val) |->
                              Section(b, arg[b].val[k])]


\* C21 as stated: when a branch that returned has only one artifact or
\* is_comparison is not true, its list holds the entity artifacts alone and
\* its comparison corpus file was neither created nor written in that run.
C21_NoCorpusWithoutComparison ==
    \A b \in Branches :
        Completed(b) /\ ~(Len(EntityArtifacts(b)) > 1 /\ is_comparison = "true") =>
            /\ reports[b] = EntityHandles(b)
            /\ corpus[GlobalFilename(b)] = [exists |-> FALSE, content |-> <<>>]


\* ------------------------------------------------------ repeated-run claims
\* the loop of an enabled branch has gone through its whole entity list
LoopFinished(b) ==
    /\ Flag(b)
    /\ st[b] \in {"running", "done"}
    /\ arg[b].kind = "list"
    /\ i[b] = Len(arg[b].val)

\* one section per entity artifact, in artifact order
SectionsOf(b) == [k \in 1 .. Len(arg[b].val) |-> Section(b, arg[b].val[k])]

\* C22: a corpus built on a cleared corpus file is a function of the entity
\* artifacts alone: the first build and a build repeated after the
\* constructor cleared the cache directory both yield one section per
\* artifact in artifact order, so two builds from the same artifacts have
\* identical content.
C22_RebuildIdentical ==
    \A b \in Branches :
        LoopFinished(b) /\ how \in {"first", "init"} =>
            ProducedSections(b) = SectionsOf(b)

\* C22 witness: the news corpus was built a second time, after a new object
\* had cleared the cache directory, from two artifacts
C22_Witness ==
    /\ run = 2
    /\ how = "init"
    /\ Completed("yfinance_news")
    /\ arg["yfinance_news"].val = <<2, 1>>
    /\ Len(corpus[GlobalFilename("yfinance_news")].content) = 2

\* C23 as stated: after a branch's aggregation was run again on the same
\* corpus file path, the corpus holds each entity section once, not twice.
C23_RerunOverwrites ==
    \A b \in Branches :
        LoopFinished(b) =>
            LET content == corpus[GlobalFilename(b)].content IN
            \A j, k \in 1 .. Len(content) : content[j] = content[k] => j = k

\* no stage method of the current run has been invoked yet
RunStart == ctor = "ok" /\ \A s \in Stages : st[s] = "idle"

\* C24 as stated: at the start of every run, a second kickoff of the same
\* object included, the cache directory is empty and the global report list
\* is empty.
C24_FreshAtRunStart ==
    RunStart =>
        /\ \A f \in CorpusFiles : ~corpus[f].exists /\ corpus[f].content = <<>>
        /\ report_list = <<>>
        /\ cache_path = "CACHE_DIR" => files = {} /\ ~final_report

\* C25: a cache_path that is neither None, a Path nor a str makes the
\* constructor raise TypeError: no stage of the rejected object is ever
\* invoked, and the rejected call leaves the files, the cache directory
\* included, and the earlier object as they were.
C25_BadCachePathRejected ==
    /\ cache_path = "other" => ctor = "TypeError"
    /\ [][/\ ctor = "ok"
          /\ cache_path' = "other" =>
               /\ ctor' = "TypeError"
               /\ UNCHANGED <<flowVars, run, how>>]_vars

\* C25 witness: a constructor call was rejected after a run that had left a
\* corpus file and a final report
C25_Witness ==
    /\ ctor = "TypeError"
    /\ cache_path = "other"
    /\ corpus[GlobalFilename("yfinance_news")].exists
    /\ final_report
    /\ st["report_writing"] = "done"


\* C26: within a run the four source flags never change; is_comparison
\* changes only in the step in which query_decomposition returns, from unset
\* to the crew's answer, and never again; no branch has been invoked before
\* that step, so the three branches read one and the same value.
C26_FlagsAndComparisonFixed ==
    [][/\ source' = source
       /\ is_comparison' # is_comparison =>
            /\ is_comparison = "unset"
            /\ Completes("query_decomposition")
            /\ \A b \in Branches : st[b] = "idle"
       /\ \A b \in Branches :
            st'[b] # "idle" => st'["query_decomposition"] = "done"]_vars

\* C26 witness: two branches have run their comparison on the value that
\* query_decomposition wrote, the third is still in its loop
C26_Witness ==
    /\ is_comparison = "true"
    /\ ComparisonInvoked("sec_edgar")
    /\ ComparisonInvoked("yfinance_news")
    /\ st["yfinance_stocks"] = "running"
    /\ Flag("yfinance_stocks")
    /\ i["yfinance_stocks"] = 1


\* the branches whose sections, or whose comparison output, file f holds
WritersOf(f) == {corpus[f].content[k].content[1] : k \in 1 .. Len(corpus[f].content)}

\* C27: in every interleaving of the three branches each corpus file holds
\* what one branch wrote, the branch whose corpus file it is: no corpus file
\* is ever written by two branches.
C27_OneWriterPerCorpus ==
    \A f \in CorpusFiles :
        /\ Cardinality(WritersOf(f)) <= 1
        /\ \A b \in WritersOf(f) : GlobalFilename(b) = f

\* C27 witness: the three branches are in their loops at the same time and
\* each has written a section into its corpus file
C27_Witness ==
    \A b \in Branches :
        /\ st[b] = "running"
        /\ i[b] = 1
        /\ Len(arg[b].val) = 2
        /\ WritersOf(GlobalFilename(b)) = {b}


\* C28 as stated: when synthesis starts and generic research was enabled,
\* the generic research artifact is the first entry of the global list, and
\* the blocks of the branches follow it.
C28_GenericFirst ==
    st["report_writing"] # "idle" /\ Flag("generic_research") =>
        /\ Len(report_list) >= 1
        /\ report_list[1] = Handle("generic_research", 0)


\* the most recent call of the collaborator failed
LastFailed == last_outcome \in {"raise", "no_usage"}

\* C29 as stated: every failed attempt is followed by one wait of 10 units
\* and then by another attempt, and no wait follows a successful attempt; so
\* get_analysis never ends on a failed attempt.
C29_FailedThenRetried ==
    max_retries >= 0 =>
        /\ Len(sleeps) = retries
        /\ \A k \in 1 .. Len(sleeps) : sleeps[k] = SleepSeconds
        /\ Finished => ~LastFailed

\* C29 amended: every failed attempt, the last permitted one included, is
\* followed by exactly one wait of 10 units, whatever its number; another
\* attempt follows unless it was attempt number max_retries, after which
\* get_analysis returns the degraded text; no wait follows a successful
\* attempt.
C29_FixedWait ==
    max_retries >= 0 =>
        /\ Len(sleeps) = retries
        /\ \A k \in 1 .. Len(sleeps) : sleeps[k] = SleepSeconds
        /\ last_outcome = "ok" => Len(sleeps) = invocations - 1
        /\ ~LastFailed => Len(sleeps) = IF invocations = 0 THEN 0 ELSE invocations - 1
        /\ LastFailed => Len(sleeps) = invocations
        /\ (LastFailed /\ Finished) =>
             /\ retries = max_retries
             /\ completion.kind = "degraded"
        /\ (LastFailed /\ ~Finished /\ retries < max_retries) =>
             ga_pc = "loop" /\ LoopCond(retries, max_retries)

\* C29 witness: three attempts failed, three waits of 10 units were made,
\* the last one before the degraded return
C29_Witness ==
    /\ ga_pc = "returned"
    /\ max_retries = 3
    /\ invocations = 3
    /\ sleeps = <<SleepSeconds, SleepSeconds, SleepSeconds>>
    /\ completion.kind = "degraded"


\* the kickoff is over: report_writing returned, or a stage raised and the
\* stages behind it are never started
Ended ==
    /\ RunEnded
    /\ st["report_writing"] = "done" \/ \E s \in Stages : st[s] = "failed"

\* C30: every workflow run eventually ends, with report_writing completed or
\* with a stage that raised, and every call of get_analysis eventually
\* returns or raises, after max_retries attempts at most.
C30_Terminates ==
    <>[](/\ Ended
         /\ Finished
         /\ invocations <= (IF max_retries > 0 THEN max_retries ELSE 0))

\* C30 witness: a run ended with a stage that raised and with report_writing
\* never started
C30_Witness ==
    /\ Ended
    /\ st["yfinance_news"] = "failed"
    /\ st["report_writing"] = "idle"
    /\ i["yfinance_news"] = 1


\* ------------------------------------------------------------ Guard claims
\* evaluate has gone through its handling of the role
RoleHandled == guard_pc \in {"invoke", "returned", "raised"}

\* the role argument is neither 'user' nor 'assistant' in any casing
BadRole == Lower(evaluate_args.role) \notin {"user", "assistant"}

\* C31 as stated: whenever the role is neither 'user' nor 'assistant'
\* (case-insensitive), evaluate raises ValueError, for a string input and for
\* a conversation-list input alike, and the guardrail model has not been
\* called.
C31_BadRoleRaises ==
    RoleHandled /\ BadRole /\ evaluate_args.input_query.kind \in {"str", "list"} =>
        /\ guard_pc = "raised"
        /\ guard_out.kind = "ValueError"
        /\ guard_out.error_message = "Invalid role"
        /\ guard_invocations = 0

\* C32 as stated: the dictionary load_guardrails returns contains only the
\* guardrails marked enabled, so every violated category evaluate names in
\* its message is an enabled guardrail.
C32_OnlyEnabledLoaded ==
    guard_pc # "new" =>
        /\ \A k \in DOMAIN guardrails : Enabled(guardrails_yaml[k])
        /\ \A j \in 1 .. Len(guard_out.categories) :
             Enabled(guardrails_yaml[guard_out.categories[j]])

\* ------------------------------------------------------------ judge claims
\* the dictionaries WeaveChatModel.predict can return
ChatOutputs ==
    {ModelOutput("text", "dict", "absent"), ModelOutput("text", "None", "absent"),
     ModelOutput("<Error>", "empty", "absent")}

\* C36 as stated: score never raises for an output WeaveChatModel.predict can
\* return; a missing completion or a failing judge call yields a result with
\* score -1 and a reason, and otherwise the judge's result is returned, also
\* when include_usage is true and the usage of the model output is None.
C36_ScoreNeverRaises ==
    /\ model_output \in ChatOutputs => score_pc # "raised"
    /\ score_pc = "returned" =>
         IF Get(model_output.completion) = "None"
            \/ TryFails(judge_outcome, normalize_score)
         THEN score_out.score = -1 /\ score_out.reason # ""
         ELSE /\ score_out.answer_score = judge_outcome.answer_score \div normalize_score
              /\ score_out.has_context = judge_outcome.has_context


\* ------------------------------------------------------ concurrency claims
\* a step of the body of branch b
BranchStep(b) == BranchEntity(b) \/ BranchAggregate(b) \/ BranchDisabled(b)

\* C33: no stage waits for a stage that is not its declared predecessor. The
\* two @start methods can be invoked as long as they have not been, whatever
\* the other one does; once information_extraction has returned, every
\* branch not yet invoked can be invoked, and every running branch can take
\* its next step, whatever the two other branches and generic_research do.
C33_NoUndeclaredWait ==
    /\ st["generic_research"] = "idle" => ENABLED generic_research_start
    /\ st["query_decomposition"] = "idle" => ENABLED query_decomposition_start
    /\ st["generic_research"] = "running" => ENABLED generic_research
    /\ st["query_decomposition"] = "running" => ENABLED query_decomposition
    /\ \A b \in Branches :
         /\ st["information_extraction"] = "done" /\ st[b] = "idle" => ENABLED BranchStart(b)
         /\ st[b] = "running" => ENABLED BranchStep(b)

\* C33 witness: the three branches returned in the reverse of the order of
\* their declaration, each with a block of its own, while generic_research,
\* startable from the beginning, has not been invoked yet
C33_Witness ==
    /\ \A b \in Branches : st[b] = "done" /\ Len(Block(b)) >= 1
    /\ report_list = Block("yfinance_stocks") \o Block("yfinance_news") \o Block("sec_edgar")
    /\ st["generic_research"] = "idle"


\* C34: is_comparison is never read by a branch before query_decomposition
\* has assigned it. Whenever an enabled branch has been invoked, the
\* decomposition task of the run has been called once, has returned, and
\* is_comparison holds its answer; no branch ever fails on reading the
\* attribute.
C34_AssignedBeforeRead ==
    /\ \A b \in Branches :
         st[b] # "idle" /\ Flag(b) =>
            /\ st["query_decomposition"] = "done"
            /\ calls["query_decomposition"] = 1
            /\ fails["query_decomposition"] = 0
            /\ is_comparison \in {"true", "false"}
    /\ \A b \in Branches : cause[b] # "attr"

\* C34 witness: the SEC branch evaluated its condition with two artifacts on
\* the answer false of the decomposition task and ran no comparison, in a run
\* with all four flags set
C34_Witness ==
    /\ \A k \in Sources : source[k]
    /\ st["sec_edgar"] = "done"
    /\ Len(EntityArtifacts("sec_edgar")) = 2
    /\ is_comparison = "false"
    /\ ~ComparisonInvoked("sec_edgar")


====
